---- MODULE Spec2Model ----
(***************************************************************************)
(* The size-class ("bin") buddy allocator of the kernel:                   *)
(*   src/cs140e/os/kernel/src/allocator/bin.rs                             *)
(* Addresses are natural numbers.  A bin is the sequence of the addresses  *)
(* its intrusive list links, head first.                                   *)
(***************************************************************************)
EXTENDS Integers, Sequences, FiniteSets, TLC

\* bins: [LinkedList; 32]
NumBins == 32
\* the smallest size class is 1 << 3
MinBits == 3
\* width of usize on the kernel's target
UsizeBits == 64

\* ---- bounds of the model ----
\* outstanding allocations in the free-running specification
MaxLive == 2
\* operations recorded in a scenario's log
MaxLog == 9
\* calls of the logged free-running specification
MaxCalls == 4

\* regions [start, end) the free-running specification constructs over
RegionStarts == {0, 16, 64}
RegionLens == {4, 32, 48}
\* alloc requests: sizes and alignments
Sizes == {1, 8, 12, 32}
Aligns == {0, 3, 8, 32}
\* the logged free-running specification: its regions and requests
CallStarts == {24, 32, 64}
CallLens == {32, 48}
CallSizes == {0, 1, 8, 16}
CallAligns == {1, 16}
\* bases of the 64-unit regions of the exhaustion scenario
ExhaustStarts == {0, 16, 32, 48, 64, 80, 96, 112, 128, 192, 256}
\* bases of the 1024-unit regions of the coalescing scenario
ScenarioStarts == {0, 1024}

VARIABLES
    pc,      \* "boot": not constructed; "ready"; "panicked": a panic (or fault) halted the kernel
    rstart,  \* the region given to Allocator::new
    rend,
    bins,    \* Allocator.bins
    live,    \* blocks handed out and not yet returned, with their layouts
    last,    \* the last call: its arguments and its result
    log      \* scenario specifications: the calls so far

vars == <<pc, rstart, rend, bins, live, last, log>>

\* ---- integer helpers (usize methods) ----
RECURSIVE Pow2(_)
Pow2(n) == IF n = 0 THEN 1 ELSE 2 * Pow2(n - 1)

Min(a, b) == IF a <= b THEN a ELSE b

RECURSIVE TrailingZeros(_)
TrailingZeros(n) ==
    IF n = 0 THEN UsizeBits
    ELSE IF n % 2 = 1 THEN 0 ELSE 1 + TrailingZeros(n \div 2)

RECURSIVE NextPow2From(_, _)
NextPow2From(n, p) == IF p >= n THEN p ELSE NextPow2From(n, 2 * p)

NextPowerOfTwo(n) == NextPow2From(n, 1)

IsPowerOfTwo(n) == n > 0 /\ Pow2(TrailingZeros(n)) = n

\* a ^ (1 << k)
XorBit(a, k) == IF (a \div Pow2(k)) % 2 = 1 THEN a - Pow2(k) ELSE a + Pow2(k)

\* sz.saturating_sub(3)
SatSub3(sz) == IF sz < MinBits THEN 0 ELSE sz - MinBits

\* ---- LinkedList ----
EmptyBins == [i \in 0..(NumBins - 1) |-> <<>>]

Push(list, a) == <<a>> \o list

RemoveAt(list, i) == SubSeq(list, 1, i - 1) \o SubSeq(list, i + 1, Len(list))

\* the first of the positions S of a list, as iter_mut() meets them; 0 if none
FirstOf(S) == IF S = {} THEN 0 ELSE CHOOSE i \in S : \A j \in S : i <= j

\* ---- Allocator::new ----
RECURSIVE NewLoop(_, _, _, _)
NewLoop(start, end, b, bld) ==
    IF ~(start < end) THEN [ok |-> TRUE, bins |-> b]
    ELSE LET tz == TrailingZeros(start) IN
         IF tz >= UsizeBits /\ bld = "debug"
         THEN [ok |-> FALSE, bins |-> b]
         ELSE LET sz == Min(Pow2(tz % UsizeBits), NextPowerOfTwo(end - start) * 2)
                  b2 == IF sz >= Pow2(MinBits)
                        THEN [b EXCEPT ![TrailingZeros(sz) - 3] = Push(@, start)]
                        ELSE b
              IN  NewLoop(start + sz, end, b2, bld)

new(start, end, bld) == NewLoop(start, end, EmptyBins, bld)

\* ---- Allocator::alloc, Allocator::_alloc ----
\* mutant of Aligned: the scan takes the first node whatever its address
AlignedAny(addr, align) == TRUE

\* (addr / align) * align == addr
Aligned(addr, align) == (addr \div align) * align = addr

Exhausted(b) == [res |-> "Exhausted", addr |-> 0, bins |-> b]

Unsupported(b) == [res |-> "Unsupported", addr |-> 0, bins |-> b]

\* new_node.add(1 << sz)
SplitUpper(new_node, sz) == new_node + Pow2(sz)

\* mutant of AfterRecursion: a failed recursive call costs this level's bin its
\* head (a node taken for splitting and not put back)
AfterRecursionLosesHead(r, bin_index, sz, fault) ==
    IF r.res # "Ok"
    THEN [r EXCEPT !.bins = [r.bins EXCEPT ![bin_index] =
                                 IF @ = <<>> THEN @ ELSE Tail(@)]]
    ELSE [res |-> "Ok", addr |-> r.addr,
          bins |-> [r.bins EXCEPT ![bin_index] = Push(@, r.addr + Pow2(sz))]]

\* What _alloc does with the result r of its recursive call: `?` hands an error
\* on untouched; on success the upper half is pushed on this level's bin.
\* The push stores a usize at the pushed address; where that address is not
\* usize-aligned the store is undefined: it either faults (fault) or goes through.
AfterRecursion(r, bin_index, sz, fault) ==
    IF r.res # "Ok" THEN r
    ELSE LET upper == SplitUpper(r.addr, sz) IN
         IF fault /\ upper % 8 # 0
         THEN [res |-> "Fault", addr |-> r.addr, bins |-> r.bins]
         ELSE [res |-> "Ok", addr |-> r.addr,
               bins |-> [r.bins EXCEPT ![bin_index] = Push(@, upper)]]

\* mutant of _alloc: a miss in the request's own bin is reported as exhaustion,
\* no larger class is tried
_alloc_nosplit(b, sz, align, fault) ==
    LET bin_index == SatSub3(sz) IN
    IF bin_index >= NumBins THEN [res |-> "Exhausted", addr |-> 0, bins |-> b]
    ELSE LET S == {i \in 1..Len(b[bin_index]) : (b[bin_index][i] \div align) * align = b[bin_index][i]} IN
         IF S # {}
         THEN LET i == CHOOSE i \in S : \A j \in S : i <= j IN
              [res |-> "Ok", addr |-> b[bin_index][i],
               bins |-> [b EXCEPT ![bin_index] = RemoveAt(@, i)]]
         ELSE [res |-> "Exhausted", addr |-> 0, bins |-> b]

\* the scan of _alloc: the first node whose address is a multiple of align
FirstAligned(list, align) ==
    FirstOf({i \in 1..Len(list) : Aligned(list[i], align)})

RECURSIVE _alloc(_, _, _, _)
_alloc(b, sz, align, fault) ==
    LET bin_index == SatSub3(sz) IN
    IF bin_index >= NumBins THEN Exhausted(b)
    ELSE LET i == FirstAligned(b[bin_index], align) IN
         IF i # 0
         THEN [res |-> "Ok", addr |-> b[bin_index][i],
               bins |-> [b EXCEPT ![bin_index] = RemoveAt(@, i)]]
         ELSE AfterRecursion(_alloc(b, sz + 1, align, fault), bin_index, sz, fault)

\* layout.size().next_power_of_two().trailing_zeros()
SzBits(size) == TrailingZeros(NextPowerOfTwo(size))

\* mutant of alloc: the power-of-two test on the alignment is missing
alloc_unchecked(b, size, align, fault) ==
    IF align <= 0 THEN [res |-> "Unsupported", addr |-> 0, bins |-> b]
    ELSE _alloc(b, TrailingZeros(NextPowerOfTwo(size)), align, fault)

alloc(b, size, align, fault) ==
    IF ~IsPowerOfTwo(align) THEN Unsupported(b)
    ELSE IF align <= 0 THEN Unsupported(b)
    ELSE _alloc(b, SzBits(size), align, fault)

\* ---- Allocator::dealloc, Allocator::_dealloc ----
\* mutant of BuddyAddr: the buddy is taken to be the block that follows
BuddyAddrNext(my_addr, sz) == my_addr + Pow2(sz)

\* my_addr ^ (1 << sz)
BuddyAddr(my_addr, sz) == XorBit(my_addr, sz)

\* the None arm: self.bins[sz - 3].push(ptr); sz - 3 underflows for sz < 3
\* (overflow panic in debug, index out of bounds in release)
PushFreed(b, ptr, sz, fault) ==
    IF sz < 3 THEN [res |-> "Panic", bins |-> b]
    ELSE IF fault /\ ptr % 8 # 0 THEN [res |-> "Fault", bins |-> b]
    ELSE [res |-> "Done", bins |-> [b EXCEPT ![sz - 3] = Push(@, ptr)]]

\* the scan of _dealloc: the first node whose address is buddy_addr
FirstEqual(list, buddy_addr) ==
    FirstOf({i \in 1..Len(list) : list[i] = buddy_addr})

RECURSIVE _dealloc(_, _, _, _)
_dealloc(b, ptr, sz, fault) ==
    LET buddy_addr == BuddyAddr(ptr, sz)
        bin_index == SatSub3(sz)
    IN  IF bin_index >= NumBins THEN [res |-> "Done", bins |-> b]
        ELSE LET i == FirstEqual(b[bin_index], buddy_addr) IN
             IF i # 0
             THEN _dealloc([b EXCEPT ![bin_index] = RemoveAt(@, i)],
                           Min(ptr, buddy_addr), sz + 1, fault)
             ELSE PushFreed(b, ptr, sz, fault)

dealloc(b, ptr, size, fault) == _dealloc(b, ptr, SzBits(size), fault)

\* ---- the state machine ----
\* "debug": overflow checks panic; "release": shifts wrap their amount
Builds == {"debug", "release"}

NoCall == [op |-> "none", size |-> 0, align |-> 0, addr |-> 0, res |-> "none"]

Call(op, size, align, addr, res) ==
    [op |-> op, size |-> size, align |-> align, addr |-> addr, res |-> res]

InitWith(starts, lens) ==
    /\ pc = "boot"
    /\ rstart \in starts
    /\ \E len \in lens : rend = rstart + len
    /\ bins = EmptyBins
    /\ live = {}
    /\ last = NoCall
    /\ log = <<>>

Init == InitWith(RegionStarts, RegionLens)

\* kernel bootstrap constructs the allocator once
New ==
    /\ pc = "boot"
    /\ \E bld \in Builds :
         \E r \in {new(rstart, rend, bld)} :
         /\ pc' = IF r.ok THEN "ready" ELSE "panicked"
         /\ bins' = r.bins
         /\ last' = Call("new", 0, 0, 0, IF r.ok THEN "Ok" ELSE "Panic")
    /\ UNCHANGED <<rstart, rend, live, log>>

AllocOp(size, align) ==
    /\ pc = "ready"
    /\ \E fault \in BOOLEAN :
         \E r \in {alloc(bins, size, align, fault)} :
         /\ pc' = IF r.res = "Fault" THEN "panicked" ELSE "ready"
         /\ bins' = r.bins
         /\ live' = IF r.res = "Ok"
                    THEN live \cup {[addr |-> r.addr, size |-> size]}
                    ELSE live
         /\ last' = Call("alloc", size, align, r.addr, r.res)
    /\ UNCHANGED <<rstart, rend>>

\* the caller returns a block it holds, with the layout it was allocated with
\* (dealloc reads layout.size() alone, so the block's align is not kept)
DeallocOp(blk) ==
    /\ pc = "ready"
    /\ blk \in live
    /\ \E fault \in BOOLEAN :
         \E r \in {dealloc(bins, blk.addr, blk.size, fault)} :
         /\ pc' = IF r.res = "Done" THEN "ready" ELSE "panicked"
         /\ bins' = r.bins
         /\ last' = Call("dealloc", blk.size, 0, blk.addr, r.res)
    /\ live' = live \ {blk}
    /\ UNCHANGED <<rstart, rend>>

Alloc ==
    /\ Cardinality(live) < MaxLive
    /\ \E size \in Sizes, align \in Aligns : AllocOp(size, align)
    /\ UNCHANGED log

Dealloc ==
    /\ \E blk \in live : DeallocOp(blk)
    /\ UNCHANGED log

Next == New \/ Alloc \/ Dealloc

Spec == Init /\ [][Next]_vars

\* ---- the same calls, with a log of the calls made ----
LoggedAlloc(size, align) == AllocOp(size, align) /\ log' = Append(log, last')

LoggedDealloc(blk) == DeallocOp(blk) /\ log' = Append(log, last')

InitCalls == InitWith(CallStarts, CallLens)

CallAlloc ==
    /\ Len(log) < MaxCalls
    /\ \E size \in CallSizes, align \in CallAligns : LoggedAlloc(size, align)

CallDealloc ==
    /\ Len(log) < MaxCalls
    /\ \E blk \in live : LoggedDealloc(blk)

NextCalls == New \/ CallAlloc \/ CallDealloc

SpecCalls == InitCalls /\ [][NextCalls]_vars

\* ---- scenario: alloc(16, 16) again and again on a region of 64 units ----
InitExhaust == InitWith(ExhaustStarts, {64})

ExhaustAlloc == Len(log) < MaxLog /\ LoggedAlloc(16, 16)

NextExhaust == New \/ ExhaustAlloc

SpecExhaust == InitExhaust /\ [][NextExhaust]_vars

\* ---- scenario: four alloc(8, 8), the blocks returned in any order, and an
\* alloc(32, 8) at any point after the four ----
InitScenario == InitWith(ScenarioStarts, {1024})

ScenarioAlloc8 == Len(log) < 4 /\ LoggedAlloc(8, 8)

ScenarioDealloc ==
    /\ Len(log) >= 4 /\ Len(log) < MaxLog
    /\ last.op # "alloc" \/ last.size # 32
    /\ \E blk \in live : LoggedDealloc(blk)

ScenarioAlloc32 ==
    /\ Len(log) >= 4 /\ Len(log) < MaxLog
    /\ last.op # "alloc" \/ last.size # 32
    /\ LoggedAlloc(32, 8)

NextScenario == New \/ ScenarioAlloc8 \/ ScenarioDealloc \/ ScenarioAlloc32

SpecScenario == InitScenario /\ [][NextScenario]_vars

\* ---- helpers of the properties ----
BinRange == 0..(NumBins - 1)

\* size of the blocks of bin i
BlockSize(i) == Pow2(i + MinBits)

\* the bin a request of `size` starts its search in
RequestBin(size) == SatSub3(SzBits(size))

SomeBinUsed == \E i \in BinRange : bins[i] # <<>>

\* C1: alloc with an alignment that is 0 or no power of two returns Unsupported
\* and leaves every bin as it was (same addresses, same order).
C1_BadAlignRejected ==
    [][(last'.op = "alloc" /\ ~IsPowerOfTwo(last'.align))
        => (last'.res = "Unsupported" /\ bins' = bins)]_vars

C1_Witness ==
    /\ last.op = "alloc" /\ last.align = 3 /\ last.size = 12
    /\ last.res = "Unsupported"
    /\ SomeBinUsed

\* C2: an alloc that returns Exhausted leaves every bin as it was: no block is
\* removed and no split half is pushed, whatever the depth the failure arose at.
C2_ExhaustedChangesNothing ==
    [][(last'.op = "alloc" /\ last'.res = "Exhausted") => bins' = bins]_vars

\* an Exhausted request that passed over free blocks on its way up the classes
C2_Witness ==
    /\ last.op = "alloc" /\ last.res = "Exhausted"
    /\ \E i \in BinRange : i >= RequestBin(last.size) /\ bins[i] # <<>>

\* C3: the address of a successful alloc (size > 0, align a power of two) is a
\* multiple of align, also when the block was split off a larger class.
C3_ReturnedAligned ==
    (last.op = "alloc" /\ last.res = "Ok" /\ last.size > 0)
        => (IsPowerOfTwo(last.align) /\ last.addr % last.align = 0)

\* a success by splitting: the upper half of the returned block heads the
\* request's bin, and the alignment asked for exceeds the block size
C3_Witness ==
    /\ last.op = "alloc" /\ last.res = "Ok"
    /\ last.size = 8 /\ last.align = 32
    /\ bins[0] # <<>> /\ Head(bins[0]) = last.addr + 8
    /\ last.addr % 32 = 0

\* C10 as claimed: with a valid align, alloc does not return Exhausted while
\* some bin at or above the request's class holds a free block.
C10_ExhaustedOnlyWhenEmpty ==
    [][(/\ last'.op = "alloc" /\ IsPowerOfTwo(last'.align)
        /\ \E i \in BinRange : i >= RequestBin(last'.size) /\ bins[i] # <<>>)
        => last'.res # "Exhausted"]_vars

\* C10 amended: alloc does not return Exhausted while some bin at or above the
\* request's class holds a free block whose address is a multiple of align.
C10_ExhaustedOnlyWhenNoAlignedBlock ==
    [][(/\ last'.op = "alloc" /\ IsPowerOfTwo(last'.align)
        /\ \E i \in BinRange :
             /\ i >= RequestBin(last'.size)
             /\ \E j \in 1..Len(bins[i]) : bins[i][j] % last'.align = 0)
        => last'.res # "Exhausted"]_vars

\* a request served from a class above its own, where an aligned block was
\* free, while its own class was empty
C10_Witness ==
    /\ last.op = "alloc" /\ last.res = "Ok" /\ last.size = 8 /\ last.align = 8
    /\ bins[0] # <<>> /\ Head(bins[0]) = last.addr + 8
    /\ bins[1] # <<>> /\ Head(bins[1]) = last.addr + 16

\* the bytes the bins hold: the sum of the sizes of the free blocks
RECURSIVE FreeBytesFrom(_, _)
FreeBytesFrom(b, i) ==
    IF i >= NumBins THEN 0
    ELSE (IF b[i] = <<>> THEN 0 ELSE Len(b[i]) * BlockSize(i)) + FreeBytesFrom(b, i + 1)

FreeBytes(b) == FreeBytesFrom(b, 0)

\* C4: the allocator manages no memory outside its region: every free block
\* [a, a + 2^(i+3)) of bin i and every block [addr, addr + rounded size) handed
\* out lies wholly inside [rstart, rend).
C4_BlocksInsideRegion ==
    pc = "ready" =>
        /\ \A i \in BinRange : \A j \in 1..Len(bins[i]) :
               rstart <= bins[i][j] /\ bins[i][j] + BlockSize(i) <= rend
        /\ \A blk \in live :
               rstart <= blk.addr /\ blk.addr + NextPowerOfTwo(blk.size) <= rend

\* C6: the blocks the constructor inserts sum to end - start minus an untracked
\* remainder of at most 7 units; in particular the sum never exceeds end - start.
C6_Coverage ==
    (pc = "ready" /\ last.op = "new") =>
        /\ FreeBytes(bins) <= rend - rstart
        /\ (rend - rstart) - FreeBytes(bins) <= 7

\* the last two calls of the log, when there are two
Last1 == log[Len(log)]
Last2 == log[Len(log) - 1]

\* the last two calls are alloc(size, align) = Ok(a) and then dealloc(a, size)
JustRoundTripped ==
    /\ Len(log) >= 2
    /\ Last2.op = "alloc" /\ Last2.res = "Ok" /\ Last2.size > 0
    /\ Last1.op = "dealloc" /\ Last1.addr = Last2.addr /\ Last1.size = Last2.size

\* C5: after alloc(size, align) = Ok(a) and an immediate dealloc(a, size, align),
\* the dealloc has completed normally and the next alloc(size, align) returns a
\* (the next alloc taken in the outcome where every store goes through).
C5_RoundTrip ==
    JustRoundTripped =>
        /\ Last1.res = "Done"
        /\ LET r == alloc(bins, Last2.size, Last2.align, FALSE)
           IN  r.res = "Ok" /\ r.addr = Last2.addr

\* the last two calls returned two buddies a and b of one size 2^k, k >= 3
FreedBuddies ==
    /\ Len(log) >= 2
    /\ Last2.op = "dealloc" /\ Last1.op = "dealloc"
    /\ Last2.size = Last1.size
    /\ SzBits(Last1.size) >= 3
    /\ Last1.addr = XorBit(Last2.addr, SzBits(Last1.size))

Merged == Min(Last1.addr, Last2.addr)

InBin(a, i) == \E j \in 1..Len(bins[i]) : bins[i][j] = a

\* the merged block is part of a free block of a class above bin i
MergedFurther(a, i) ==
    \E c \in BinRange : c > i /\ \E j \in 1..Len(bins[c]) :
        bins[c][j] <= a /\ a < bins[c][j] + BlockSize(c)

\* the alloc of the merged size, aligned to it, that follows
AllocMerged == alloc(bins, 2 * NextPowerOfTwo(Last1.size), 2 * NextPowerOfTwo(Last1.size), FALSE)

\* C7 as claimed: once two allocated buddies of size 2^k are both deallocated,
\* neither is left in bin k-3, the merged block min(a, b) is free in bin k-2 or
\* merged further upward, and an alloc of 2^(k+1) with that alignment succeeds
\* from the merged block's addresses, no bin of a larger class being touched.
C7_BuddiesCoalesce ==
    FreedBuddies =>
        LET k == SzBits(Last1.size)
            r == AllocMerged
        IN  /\ Last1.res = "Done"
            /\ ~InBin(Last1.addr, k - 3) /\ ~InBin(Last2.addr, k - 3)
            /\ InBin(Merged, k - 2) \/ MergedFurther(Merged, k - 2)
            /\ r.res = "Ok"
            /\ Merged <= r.addr /\ r.addr < Merged + Pow2(k + 1)
            /\ \A i \in BinRange : i > k - 2 => r.bins[i] = bins[i]

\* C7 amended: neither half is left in bin k-3, the merged block is free in bin
\* k-2 or merged further upward, and an alloc of 2^(k+1) with that alignment
\* succeeds; where the merged block is in bin k-2 that alloc returns min(a, b)
\* and takes it from bin k-2, every other bin left alone.
C7_BuddiesCoalesceUnlessMergedFurther ==
    FreedBuddies =>
        LET k == SzBits(Last1.size)
            r == AllocMerged
        IN  /\ Last1.res = "Done"
            /\ ~InBin(Last1.addr, k - 3) /\ ~InBin(Last2.addr, k - 3)
            /\ InBin(Merged, k - 2) \/ MergedFurther(Merged, k - 2)
            /\ r.res = "Ok"
            /\ InBin(Merged, k - 2) =>
                 /\ r.addr = Merged
                 /\ Head(bins[k - 2]) = Merged
                 /\ r.bins = [bins EXCEPT ![k - 2] = Tail(@)]

\* two freed buddies whose merged block stayed in bin k-2
C7_Witness ==
    /\ FreedBuddies /\ Last1.res = "Done"
    /\ InBin(Merged, SzBits(Last1.size) - 2)
    /\ Last1.addr < Last2.addr

\* C8: on a fresh allocator over a region of exactly 64 units, four consecutive
\* alloc(16, 16) succeed with four distinct addresses whose 16-unit blocks span
\* [rstart, rstart + 64), and a fifth alloc(16, 16) returns Exhausted.
C8_Exhaustion ==
    /\ \A n \in 1..Len(log) : n <= 4 => log[n].res = "Ok"
    /\ Len(log) >= 4 =>
         {log[n].addr : n \in 1..4} = {rstart, rstart + 16, rstart + 32, rstart + 48}
    /\ Len(log) >= 5 => log[5].res = "Exhausted"

\* the addresses of the first four calls of the log
FirstFour == {log[n].addr : n \in 1..4}

\* the scenario over [0, 1024) from a constructed allocator on: four alloc(8, 8)
\* return four distinct multiples of 8 with their blocks inside the region, and
\* once all four are deallocated, in any order, alloc(32, 8) succeeds with an
\* address inside the span the four blocks occupied
ScenarioOnceConstructed ==
    rstart = 0 =>
        /\ \A n \in 1..Len(log) : n <= 4 =>
             /\ log[n].res = "Ok"
             /\ log[n].addr % 8 = 0
             /\ 0 <= log[n].addr /\ log[n].addr + 8 <= 1024
             /\ \A m \in 1..(n - 1) : log[m].addr # log[n].addr
        /\ (Len(log) = 9 /\ log[9].op = "alloc") =>
             /\ log[9].res = "Ok"
             /\ \E lo \in FirstFour : lo <= log[9].addr
             /\ \E hi \in FirstFour : log[9].addr < hi + 8

\* C9: a fresh allocator over [0, 1024) is constructed, and the scenario runs
\* on it: four alloc(8, 8), the four deallocs in any order, then alloc(32, 8)
\* returning an address inside the span of the four freed blocks.
C9_Scenario ==
    /\ (rstart = 0 /\ last.op = "new") => last.res = "Ok"
    /\ ScenarioOnceConstructed


\* C11: alloc of size 0 with a power-of-two align returns Unsupported, leaves
\* every bin as it was and hands out no address.
C11_ZeroSizeRejected ==
    [][(last'.op = "alloc" /\ last'.size = 0 /\ IsPowerOfTwo(last'.align))
        => (last'.res = "Unsupported" /\ bins' = bins)]_vars


\* C12 (invariant 3): every address held in bin i is a multiple of 2^(i+3),
\* whatever the sizes (1..7 included) of the requests made so far.
C12_BinAddressesAligned ==
    pc = "ready" =>
        \A i \in BinRange : \A j \in 1..Len(bins[i]) : bins[i][j] % BlockSize(i) = 0

\* C13 (invariant 1): no bin i holds two addresses a and b with
\* b = a XOR 2^(i+3): two buddies of one class are never free together.
C13_NoFreeBuddies ==
    \A i \in BinRange : \A j, k \in 1..Len(bins[i]) :
        bins[i][k] # XorBit(bins[i][j], i + MinBits)

\* a dealloc that coalesced: the freed block of 8 units is in no bin, the
\* block of 16 units it formed with its buddy is free in the class above
C13_Witness ==
    /\ last.op = "dealloc" /\ last.res = "Done" /\ last.size = 8
    /\ \A j \in 1..Len(bins[0]) : bins[0][j] # last.addr
    /\ \E j \in 1..Len(bins[1]) : bins[1][j] = Min(last.addr, XorBit(last.addr, MinBits))

\* the ranges [a, a + m) and [b, b + n) share no unit
Disjoint(a, m, b, n) == a + m <= b \/ b + n <= a

\* C18: the ranges [addr, addr + size) of two blocks handed out are disjoint,
\* and none of them meets the range [a, a + 2^(i+3)) of a free block a of bin i.
C18_NoOverlap ==
    pc = "ready" =>
        /\ \A x, y \in live :
               x # y => Disjoint(x.addr, x.size, y.addr, y.size)
        /\ \A x \in live : \A i \in BinRange : \A j \in 1..Len(bins[i]) :
               Disjoint(x.addr, x.size, bins[i][j], BlockSize(i))


\* a successful alloc took p from bin c of the bins b and left the bins b2:
\* bin c lost exactly p, every bin j of first..c-1 gained exactly the upper
\* half p + 2^(j+3) at its head, every other bin is as it was
SplitFrame(b, b2, p, first, c) ==
    /\ FirstEqual(b[c], p) # 0
    /\ b2[c] = RemoveAt(b[c], FirstEqual(b[c], p))
    /\ \A j \in first..(c - 1) : b2[j] = Push(b[j], p + BlockSize(j))
    /\ \A j \in BinRange : (j < first \/ j > c) => b2[j] = b[j]

\* C14: a successful alloc whose request maps to bin b and whose block p is
\* found in bin c >= b removes exactly p from bin c, pushes exactly one upper
\* half p + 2^(j+3) into each bin j with b <= j < c, returns p and leaves the
\* bins below b and above c unchanged.
C14_SplitPathFrame ==
    [][(last'.op = "alloc" /\ last'.res = "Ok")
        => \E c \in RequestBin(last'.size)..(NumBins - 1) :
               SplitFrame(bins, bins', last'.addr, RequestBin(last'.size), c)]_vars

\* C14 for requests of 8 units and more: one exponent per bin
C14_SplitPathFrameFrom8 ==
    [][(last'.op = "alloc" /\ last'.res = "Ok" /\ last'.size >= 8)
        => \E c \in RequestBin(last'.size)..(NumBins - 1) :
               SplitFrame(bins, bins', last'.addr, RequestBin(last'.size), c)]_vars


\* C15: dealloc of a block whose size exponent is below 3 (sizes 1, 2, 4) uses
\* bin 0: when the buddy is not free in bin 0 the call completes, the address
\* is pushed onto bin 0 and every other bin is as it was.
C15_SmallDeallocPushesBin0 ==
    [][(/\ last'.op = "dealloc" /\ SzBits(last'.size) < MinBits
        /\ FirstEqual(bins[0], XorBit(last'.addr, SzBits(last'.size))) = 0)
        => (/\ last'.res = "Done"
            /\ bins' = [bins EXCEPT ![0] = Push(@, last'.addr)])]_vars


\* the activations of _alloc that look into a bin, for a request of exponent
\* sz on the bins b: one per value of sz until a bin yields an aligned node or
\* bin_index reaches NumBins
RECURSIVE AllocLevels(_, _, _)
AllocLevels(b, sz, align) ==
    LET bin_index == SatSub3(sz) IN
    IF bin_index >= NumBins THEN 0
    ELSE IF FirstAligned(b[bin_index], align) # 0 THEN 1
    ELSE 1 + AllocLevels(b, sz + 1, align)

\* the activations of _dealloc that look into a bin: one per merge, and the
\* one that finds no buddy
RECURSIVE DeallocLevels(_, _, _)
DeallocLevels(b, ptr, sz) ==
    LET buddy_addr == BuddyAddr(ptr, sz)
        bin_index == SatSub3(sz)
    IN  IF bin_index >= NumBins THEN 0
        ELSE LET i == FirstEqual(b[bin_index], buddy_addr) IN
             IF i # 0
             THEN 1 + DeallocLevels([b EXCEPT ![bin_index] = RemoveAt(@, i)],
                                    Min(ptr, buddy_addr), sz + 1)
             ELSE 1

\* C16: every alloc and every dealloc ends after at most 32 levels of
\* recursion, one per size class, whatever the size asked for (sizes below 8
\* included).
C16_RecursionDepth ==
    [][/\ (last'.op = "alloc" /\ IsPowerOfTwo(last'.align))
            => AllocLevels(bins, SzBits(last'.size), last'.align) <= NumBins
       /\ last'.op = "dealloc"
            => DeallocLevels(bins, last'.addr, SzBits(last'.size)) <= NumBins]_vars

\* C16 for requests of 8 units and more
C16_RecursionDepthFrom8 ==
    [][/\ (last'.op = "alloc" /\ IsPowerOfTwo(last'.align) /\ last'.size >= 8)
            => AllocLevels(bins, SzBits(last'.size), last'.align) <= NumBins
       /\ (last'.op = "dealloc" /\ last'.size >= 8)
            => DeallocLevels(bins, last'.addr, SzBits(last'.size)) <= NumBins]_vars


\* the addresses a bin holds
Addresses(list) == {list[j] : j \in 1..Len(list)}

\* the bins b and c hold the same addresses, bin by bin
SameBlocks(b, c) == \A i \in BinRange : Addresses(b[i]) = Addresses(c[i])

\* the bins right after construction (a debug build that reached "ready"
\* built what a release build builds)
ConstructedBins == new(rstart, rend, "release").bins

\* C19: once every block handed out has been returned, each bin holds the
\* addresses it held right after construction.
C19_FullRestoration ==
    (pc # "boot" /\ last.op = "dealloc" /\ live = {})
        => (last.res = "Done" /\ SameBlocks(bins, ConstructedBins))

\* C19 for requests of 8 units and more
C19_FullRestorationFrom8 ==
    (pc = "ready" /\ last.op = "dealloc" /\ last.size >= 8 /\ live = {})
        => (last.res = "Done" /\ SameBlocks(bins, ConstructedBins))


\* dealloc of the block x and then of the block y, on the bins b
BothFreed(b, x, y) ==
    LET r == dealloc(b, x.addr, x.size, FALSE) IN
    IF r.res # "Done" THEN r ELSE dealloc(r.bins, y.addr, y.size, FALSE)

\* C20: for two distinct blocks x and y handed out, dealloc(x) then dealloc(y)
\* and dealloc(y) then dealloc(x) end alike and leave every bin holding the
\* same addresses.
C20_DeallocOrderIndependent ==
    pc = "ready" =>
        \A x, y \in live :
            x # y =>
                /\ BothFreed(bins, x, y).res = BothFreed(bins, y, x).res
                /\ SameBlocks(BothFreed(bins, x, y).bins, BothFreed(bins, y, x).bins)

\* C20 for blocks of 8 units and more
C20_DeallocOrderIndependentFrom8 ==
    pc = "ready" =>
        \A x, y \in live :
            (x # y /\ x.size >= 8 /\ y.size >= 8) =>
                /\ BothFreed(bins, x, y).res = "Done"
                /\ BothFreed(bins, y, x).res = "Done"
                /\ SameBlocks(BothFreed(bins, x, y).bins, BothFreed(bins, y, x).bins)

====
